---- MODULE Spec2Model ----
(***************************************************************************)
(* A model of the personal expense manager of src/main.py: the record      *)
(* model (Expense, RecurringExpense, Category), the two JSON stores, the   *)
(* ExpenseManager ledger with its CRUD and aggregation operations, the     *)
(* category report, and the console flow that adds a recurring expense.    *)
(*                                                                         *)
(* Python values are modelled as follows.                                  *)
(*   - a float is the integer of the same value (every amount used is an   *)
(*     integer-valued float, on which + and - are exact);                  *)
(*   - an optional argument is a tuple: <<>> is None, <<v>> is the value v;*)
(*   - an object is a record of its attributes; cls is its Python class;   *)
(*     an Expense has no _frequency attribute, written NoAttr;             *)
(*   - a dict is a record of its values with the set of the keys it has   *)
(*     (keys); the value of a key it lacks is a placeholder never read;    *)
(*   - a file is a record: whether it exists, whether its text parses as   *)
(*     JSON, and the parsed list of dicts.  json.dump followed by          *)
(*     json.load returns floats and strings unchanged, so the parsed list  *)
(*     stands for the text;                                                *)
(*   - a dict with insertion order (the category summary) is a sequence of *)
(*     <<key, value>> pairs.                                               *)
(***************************************************************************)
EXTENDS Integers, Sequences, FiniteSets, TLC

VARIABLES expenses, categories, data_file, categories_file, last

vars == <<expenses, categories, data_file, categories_file, last>>

(***************************************************************************)
(* Bounds of the model.                                                    *)
(***************************************************************************)
MaxExpenses == 2
MaxCategories == 9

(***************************************************************************)
(* Python values.                                                          *)
(***************************************************************************)
None == <<>>
Some(v) == <<v>>
NoAttr == "<no attribute>"
NoValue == ""

\* datetime.now().strftime("%Y-%m-%d"): the days the clock may show.
Days == {"2024-05-11"}

\* float(x) on a number keeps its value.
Float(x) == x

\* Python truthiness of a str: the empty string is falsy.
Truthy(s) == s /= ""

\* str.lower() on the names the model uses.
Lower(s) ==
  CASE s \in {"Food", "FOOD", "food"} -> "food"
    [] s \in {"Gym", "gym"} -> "gym"
    [] s \in {"Monthly", "monthly"} -> "monthly"
    [] s \in {"Weekly", "weekly"} -> "weekly"
    [] s = "Travel" -> "travel"
    [] s = "Entertainment" -> "entertainment"
    [] s = "Shopping" -> "shopping"
    [] s = "Bills" -> "bills"
    [] s = "Healthcare" -> "healthcare"
    [] s = "Education" -> "education"
    [] s = "Other" -> "other"
    [] OTHER -> s

(***************************************************************************)
(* Record model: Expense, RecurringExpense, Category.                      *)
(***************************************************************************)
\* Expense.__init__(amount, category, description, date); date is optional
\* and `date if date else now` replaces None and the empty string alike.
Expense(amount, category, description, date, now) ==
  [cls |-> "Expense",
   amount |-> Float(amount),
   category |-> category,
   description |-> description,
   date |-> IF date /= None /\ Truthy(date[1]) THEN date[1] ELSE now,
   frequency |-> NoAttr]

\* RecurringExpense.__init__: the base fields, then _frequency as given.
RecurringExpense(amount, category, description, date, frequency, now) ==
  [Expense(amount, category, description, date, now) EXCEPT
     !.cls = "RecurringExpense",
     !.frequency = frequency]

\* Expense.to_dict / RecurringExpense.to_dict (dynamic dispatch on the class).
to_dict(e) ==
  IF e.cls = "RecurringExpense"
  THEN [keys |-> {"amount", "category", "description", "date", "type",
                  "frequency"},
        amount |-> e.amount, category |-> e.category,
        description |-> e.description, date |-> e.date,
        type |-> "recurring", frequency |-> e.frequency]
  ELSE [keys |-> {"amount", "category", "description", "date", "type"},
        amount |-> e.amount, category |-> e.category,
        description |-> e.description, date |-> e.date,
        type |-> "regular", frequency |-> NoValue]

\* data[key] raises KeyError for each of these keys the dict lacks.
HasExpenseKeys(d) ==
  {"amount", "category", "description", "date"} \subseteq d.keys

\* Expense.from_dict(data)
Expense_from_dict(d, now) ==
  Expense(d.amount, d.category, d.description, Some(d.date), now)

\* RecurringExpense.from_dict(data): data.get('frequency', 'monthly')
RecurringExpense_from_dict(d, now) ==
  RecurringExpense(d.amount, d.category, d.description, Some(d.date),
                   IF "frequency" \in d.keys THEN d.frequency ELSE "monthly",
                   now)

\* The loader's dispatch on item.get('type').
expense_from_item(d, now) ==
  IF "type" \in d.keys /\ d.type = "recurring"
  THEN RecurringExpense_from_dict(d, now)
  ELSE Expense_from_dict(d, now)

\* Category.__init__(name, budget_limit)
Category(name, budget_limit) ==
  [name |-> name, budget_limit |-> Float(budget_limit)]

\* Category.to_dict
Category_to_dict(c) ==
  [keys |-> {"name", "budget_limit"},
   name |-> c.name, budget_limit |-> c.budget_limit]

HasCategoryKeys(d) == {"name", "budget_limit"} \subseteq d.keys

\* Category.from_dict
Category_from_dict(d) == Category(d.name, d.budget_limit)

(***************************************************************************)
(* Sequence helpers (list indexing, list.pop, sum).                         *)
(***************************************************************************)
\* Python's position of a list index: a negative index counts from the end.
Position(s, index) == IF index < 0 THEN Len(s) + index + 1 ELSE index + 1

\* s[index]
At(s, index) == s[Position(s, index)]

\* The list that s.pop() without an argument leaves behind.
PopLast(s, index) == SubSeq(s, 1, Len(s) - 1)

\* The list that s.pop(index) leaves behind.
PopAt(s, index) ==
  SubSeq(s, 1, Position(s, index) - 1) \o SubSeq(s, Position(s, index) + 1, Len(s))

RECURSIVE SumAmounts(_)
\* sum(exp.get_amount() for exp in s), left to right from 0.
SumAmounts(s) ==
  IF s = <<>> THEN 0
  ELSE SumAmounts(SubSeq(s, 1, Len(s) - 1)) + s[Len(s)].amount

(***************************************************************************)
(* The two JSON files.                                                     *)
(***************************************************************************)
JsonFile(data) == [exists |-> TRUE, json |-> TRUE, data |-> data]
MissingFile == [exists |-> FALSE, json |-> FALSE, data |-> <<>>]
\* A file opened for writing whose write then failed: no parsable JSON.
TruncatedFile == [exists |-> TRUE, json |-> FALSE, data |-> <<>>]

\* What a write can do: succeed; fail in open() (the file keeps its
\* content); fail during json.dump after open(.., 'w') truncated the file.
DiskOutcomes == {"ok", "denied", "full"}

default_categories ==
  << [keys |-> {"name", "budget_limit"}, name |-> "Food", budget_limit |-> 5000],
     [keys |-> {"name", "budget_limit"}, name |-> "Travel", budget_limit |-> 3000],
     [keys |-> {"name", "budget_limit"}, name |-> "Entertainment", budget_limit |-> 2000],
     [keys |-> {"name", "budget_limit"}, name |-> "Shopping", budget_limit |-> 4000],
     [keys |-> {"name", "budget_limit"}, name |-> "Bills", budget_limit |-> 6000],
     [keys |-> {"name", "budget_limit"}, name |-> "Healthcare", budget_limit |-> 1500],
     [keys |-> {"name", "budget_limit"}, name |-> "Education", budget_limit |-> 3000],
     [keys |-> {"name", "budget_limit"}, name |-> "Other", budget_limit |-> 1000] >>

\* ExpenseManager._initialize_files: each file is created only if missing.
initialized_data_file(f) == IF f.exists THEN f ELSE JsonFile(<<>>)
initialized_categories_file_empty(f) == IF f.exists THEN f ELSE JsonFile(<<>>)
initialized_categories_file(f) ==
  IF f.exists THEN f ELSE JsonFile(default_categories)

\* The try block of _load_expenses succeeds: the file opens, parses, every
\* item has the keys from_dict reads.
expenses_loadable(f) ==
  /\ f.exists
  /\ f.json
  /\ \A i \in 1..Len(f.data) : HasExpenseKeys(f.data[i])

\* ExpenseManager._load_expenses: the list it leaves in self.expenses.
loaded_expenses(f, now) ==
  IF expenses_loadable(f)
  THEN [i \in 1..Len(f.data) |-> expense_from_item(f.data[i], now)]
  ELSE <<>>

\* ExpenseManager._load_expenses: the file it leaves (reset when the load
\* failed).
data_file_after_load(f) == IF expenses_loadable(f) THEN f ELSE JsonFile(<<>>)

categories_loadable(f) ==
  /\ f.exists
  /\ f.json
  /\ \A i \in 1..Len(f.data) : HasCategoryKeys(f.data[i])

\* ExpenseManager._load_categories: the list it leaves in self.categories.
loaded_categories(f) ==
  IF categories_loadable(f)
  THEN [i \in 1..Len(f.data) |-> Category_from_dict(f.data[i])]
  ELSE <<>>

\* ExpenseManager._save_expenses: the file after the attempt.
saved_expenses_file(f, exps, disk) ==
  CASE disk = "ok" -> JsonFile([i \in 1..Len(exps) |-> to_dict(exps[i])])
    [] disk = "denied" -> f
    [] OTHER -> TruncatedFile

\* ExpenseManager._save_categories: the file after the attempt.
saved_categories_file(f, cats, disk) ==
  CASE disk = "ok" -> JsonFile([i \in 1..Len(cats) |-> Category_to_dict(cats[i])])
    [] disk = "denied" -> f
    [] OTHER -> TruncatedFile

\* The message _save_* prints.
save_message(disk) == IF disk = "ok" THEN "saved" ELSE "PersistFailure"

(***************************************************************************)
(* What the last operation did: the operation, the arguments of the call  *)
(* (the index first; the field arguments of update_expense are kept when   *)
(* the index was valid), the message that ended it, what the save step     *)
(* printed, the value returned to the caller (None, or Some(v)), and the   *)
(* entity shown in the message (delete_expense prints the one removed).    *)
(***************************************************************************)
Report(op, args, status, saved, ret, shown) ==
  [op |-> op, args |-> args, status |-> status, saved |-> saved,
   ret |-> ret, shown |-> shown]

(***************************************************************************)
(* ExpenseManager.__init__ and the state it leaves.                        *)
(***************************************************************************)
\* A write outside the try blocks of _save_*: open(..., 'w') is refused and
\* the file stays as it was, or json.dump stops part-way in the opened file.
failed_write(f, disk) == IF disk = "denied" THEN f ELSE TruncatedFile

\* ExpenseManager._initialize_files writes the expenses file (it is missing)
\* and the write raises; nothing catches it inside __init__.
data_init_raises(df, data_disk) == ~df.exists /\ data_disk /= "ok"

\* ExpenseManager._initialize_files writes the categories file (it is
\* missing) and the write raises.
categories_init_raises(cf, categories_disk) ==
  ~cf.exists /\ categories_disk /= "ok"

\* The except branch of _load_expenses rewrites the file with [] and that
\* write raises inside the handler.
load_reset_raises(df, data_disk) ==
  ~expenses_loadable(initialized_data_file(df)) /\ data_disk /= "ok"

\* The exception leaves __init__: no ExpenseManager exists, and main()
\* prints "An unexpected error occurred" and ends the process.
Crashed == Report("__init__", None, "unexpected error", "n/a", None, None)

\* The process has not been started on the files yet.
NotStarted == Report("main", None, "not started", "n/a", None, None)

\* An ExpenseManager exists and the menu loop takes commands.
Running == last.status /= "unexpected error" /\ last.status /= "not started"

\* ExpenseManager(): _initialize_files, then _load_expenses and
\* _load_categories, with the outcome of the write to the expenses file
\* (creation or reset) and of the write that creates the categories file.
Construct(df, cf, now, data_disk, categories_disk) ==
  CASE data_init_raises(df, data_disk) ->
         /\ expenses' = <<>>
         /\ categories' = <<>>
         /\ data_file' = failed_write(df, data_disk)
         /\ categories_file' = cf
         /\ last' = Crashed
    [] ~data_init_raises(df, data_disk)
         /\ categories_init_raises(cf, categories_disk) ->
         /\ expenses' = <<>>
         /\ categories' = <<>>
         /\ data_file' = initialized_data_file(df)
         /\ categories_file' = failed_write(cf, categories_disk)
         /\ last' = Crashed
    [] ~data_init_raises(df, data_disk)
         /\ ~categories_init_raises(cf, categories_disk)
         /\ load_reset_raises(df, data_disk) ->
         /\ expenses' = <<>>
         /\ categories' = <<>>
         /\ data_file' = failed_write(initialized_data_file(df), data_disk)
         /\ categories_file' = initialized_categories_file(cf)
         /\ last' = Crashed
    [] OTHER ->
         /\ expenses' = loaded_expenses(initialized_data_file(df), now)
         /\ categories' = loaded_categories(initialized_categories_file(cf))
         /\ data_file' = data_file_after_load(initialized_data_file(df))
         /\ categories_file' = initialized_categories_file(cf)
         /\ last' = Report("__init__", None, "ok", "n/a", None, None)

\* ExpenseManager() on a first run: neither file exists yet, both writes
\* succeed.
Init ==
  \E now \in Days :
    /\ expenses = loaded_expenses(initialized_data_file(MissingFile), now)
    /\ categories = loaded_categories(initialized_categories_file(MissingFile))
    /\ data_file = data_file_after_load(initialized_data_file(MissingFile))
    /\ categories_file = initialized_categories_file(MissingFile)
    /\ last = Report("__init__", None, "ok", "n/a", None, None)

\* The process ends (or has not run yet) and the program is started on the
\* files as they are.
Restart(now, data_disk, categories_disk) ==
  Construct(data_file, categories_file, now, data_disk, categories_disk)

(***************************************************************************)
(* Ledger operations (ExpenseManager).                                     *)
(***************************************************************************)
\* The range test of the index-addressed operations, accepting Python's
\* negative indices as well.
valid_index_negative(index, coll) == -Len(coll) <= index /\ index < Len(coll)

\* `0 <= index < len(coll)`
valid_index(index, coll) == 0 <= index /\ index < Len(coll)

\* add_expense that takes the expense back out when the save fails.
add_expense_rollback(expense, disk) ==
  /\ expenses' = IF disk = "ok" THEN Append(expenses, expense) ELSE expenses
  /\ data_file' = saved_expenses_file(data_file, Append(expenses, expense), disk)
  /\ UNCHANGED <<categories, categories_file>>
  /\ last' = Report("add_expense", None, "ok", save_message(disk), None, None)

\* add_expense(expense): append, save, report success.
add_expense(expense, disk) ==
  /\ expenses' = Append(expenses, expense)
  /\ data_file' = saved_expenses_file(data_file, expenses', disk)
  /\ UNCHANGED <<categories, categories_file>>
  /\ last' = Report("add_expense", None, "ok", save_message(disk), None, None)

\* delete_expense with the save placed before the pop.
delete_expense_save_first(index, disk) ==
  IF valid_index(index, expenses)
  THEN /\ expenses' = PopAt(expenses, index)
       /\ data_file' = saved_expenses_file(data_file, expenses, disk)
       /\ UNCHANGED <<categories, categories_file>>
       /\ last' = Report("delete_expense", <<index>>, "ok",
                         save_message(disk), None, Some(At(expenses, index)))
  ELSE /\ UNCHANGED <<expenses, categories, data_file, categories_file>>
       /\ last' = Report("delete_expense", <<index>>, "IndexOutOfRange",
                         "n/a", None, None)

\* delete_expense(index): pop, save, print the removed expense; or print
\* the invalid-index message.  Nothing is returned on either path.
delete_expense(index, disk) ==
  IF valid_index(index, expenses)
  THEN /\ expenses' = PopAt(expenses, index)
       /\ data_file' = saved_expenses_file(data_file, expenses', disk)
       /\ UNCHANGED <<categories, categories_file>>
       /\ last' = Report("delete_expense", <<index>>, "ok",
                         save_message(disk), None, Some(At(expenses, index)))
  ELSE /\ UNCHANGED <<expenses, categories, data_file, categories_file>>
       /\ last' = Report("delete_expense", <<index>>, "IndexOutOfRange",
                         "n/a", None, None)

\* The setters update_expense would call if it tested `if description:`.
updated_expense_truthy(e, amount, category, description, date) ==
  [e EXCEPT
     !.amount = IF amount /= None THEN Float(amount[1]) ELSE @,
     !.category = IF category /= None THEN category[1] ELSE @,
     !.description = IF description /= None /\ Truthy(description[1])
                     THEN description[1] ELSE @,
     !.date = IF date /= None THEN date[1] ELSE @]

\* The setters update_expense calls on the expense: one per argument that
\* `is not None`.
updated_expense(e, amount, category, description, date) ==
  [e EXCEPT
     !.amount = IF amount /= None THEN Float(amount[1]) ELSE @,
     !.category = IF category /= None THEN category[1] ELSE @,
     !.description = IF description /= None THEN description[1] ELSE @,
     !.date = IF date /= None THEN date[1] ELSE @]

\* update_expense(index, amount, category, description, date)
update_expense(index, amount, category, description, date, disk) ==
  IF valid_index(index, expenses)
  THEN /\ expenses' = [expenses EXCEPT ![Position(expenses, index)] =
                         updated_expense(@, amount, category, description, date)]
       /\ data_file' = saved_expenses_file(data_file, expenses', disk)
       /\ UNCHANGED <<categories, categories_file>>
       /\ last' = Report("update_expense",
                         <<index, amount, category, description, date>>, "ok",
                         save_message(disk), None, None)
  ELSE /\ UNCHANGED <<expenses, categories, data_file, categories_file>>
       /\ last' = Report("update_expense", <<index>>, "IndexOutOfRange",
                         "n/a", None, None)

\* The duplicate test of add_category with the names compared as written.
category_exists_exact(name, cats) ==
  \E i \in 1..Len(cats) : cats[i].name = name

\* The loop of add_category: some category's lowered name is name.lower().
category_exists(name, cats) ==
  \E i \in 1..Len(cats) : Lower(cats[i].name) = Lower(name)

\* add_category(name, budget_limit)
add_category(name, budget_limit, disk) ==
  IF category_exists(name, categories)
  THEN /\ UNCHANGED <<expenses, categories, data_file, categories_file>>
       /\ last' = Report("add_category", <<name>>, "DuplicateCategory", "n/a",
                         None, None)
  ELSE /\ categories' = Append(categories, Category(name, budget_limit))
       /\ categories_file' =
            saved_categories_file(categories_file, categories', disk)
       /\ UNCHANGED <<expenses, data_file>>
       /\ last' = Report("add_category", <<name>>, "ok", save_message(disk),
                         None, None)

\* update_category_budget(index, new_budget)
update_category_budget(index, new_budget, disk) ==
  IF valid_index(index, categories)
  THEN /\ categories' = [categories EXCEPT
                           ![Position(categories, index)].budget_limit =
                             Float(new_budget)]
       /\ categories_file' =
            saved_categories_file(categories_file, categories', disk)
       /\ UNCHANGED <<expenses, data_file>>
       /\ last' = Report("update_category_budget", <<index, new_budget>>, "ok",
                         save_message(disk), None, None)
  ELSE /\ UNCHANGED <<expenses, categories, data_file, categories_file>>
       /\ last' = Report("update_category_budget", <<index>>,
                         "IndexOutOfRange", "n/a", None, None)

(***************************************************************************)
(* Aggregation and the category report.                                    *)
(***************************************************************************)
\* get_total_spending()
get_total_spending(exps) == SumAmounts(exps)

\* summary[category] = amount, losing what the key held.
summary_put_overwrite(summary, category, amount) ==
  IF \E i \in 1..Len(summary) : summary[i][1] = category
  THEN [i \in 1..Len(summary) |->
          IF summary[i][1] = category THEN <<category, amount>> ELSE summary[i]]
  ELSE Append(summary, <<category, 0 + amount>>)

\* summary[category] = summary.get(category, 0) + amount: an existing key
\* keeps its place, a new key goes last.
summary_put(summary, category, amount) ==
  IF \E i \in 1..Len(summary) : summary[i][1] = category
  THEN [i \in 1..Len(summary) |->
          IF summary[i][1] = category
          THEN <<category, summary[i][2] + amount>>
          ELSE summary[i]]
  ELSE Append(summary, <<category, 0 + amount>>)

RECURSIVE get_category_summary(_)
\* get_category_summary(): one pass over the expenses in list order.
get_category_summary(exps) ==
  IF exps = <<>> THEN <<>>
  ELSE summary_put(get_category_summary(SubSeq(exps, 1, Len(exps) - 1)),
                   exps[Len(exps)].category, exps[Len(exps)].amount)

\* The budget line with the test `remaining > 0`.
budget_line_strict(budget_limit, total) ==
  IF budget_limit > 0
  THEN IF budget_limit - total > 0
       THEN [mark |-> "Remaining", value |-> budget_limit - total]
       ELSE [mark |-> "Over Budget",
             value |-> IF budget_limit - total < 0
                       THEN total - budget_limit ELSE budget_limit - total]
  ELSE [mark |-> "none", value |-> 0]

\* The line CategoryReport adds after the budget limit: "Remaining" with
\* remaining, "Over Budget" with abs(remaining), or no line.
budget_line(budget_limit, total) ==
  IF budget_limit > 0
  THEN IF budget_limit - total >= 0
       THEN [mark |-> "Remaining", value |-> budget_limit - total]
       ELSE [mark |-> "Over Budget",
             value |-> IF budget_limit - total < 0
                       THEN total - budget_limit ELSE budget_limit - total]
  ELSE [mark |-> "none", value |-> 0]

\* One category's block of the report.
category_block(category, exps) ==
  [name |-> category.name,
   total |-> SumAmounts(SelectSeq(exps, LAMBDA e : e.category = category.name)),
   budget_limit |-> category.budget_limit,
   line |-> budget_line(category.budget_limit,
              SumAmounts(SelectSeq(exps, LAMBDA e : e.category = category.name)))]

\* CategoryReport(expenses, categories).generate_report()
generate_report(exps, cats) ==
  [i \in 1..Len(cats) |-> category_block(cats[i], exps)]

\* The caller asks for the total.
total_spending_query ==
  /\ UNCHANGED <<expenses, categories, data_file, categories_file>>
  /\ last' = Report("get_total_spending", None, "ok", "n/a",
                    Some(get_total_spending(expenses)), None)

\* The caller asks for the category summary.
category_summary_query ==
  /\ UNCHANGED <<expenses, categories, data_file, categories_file>>
  /\ last' = Report("get_category_summary", None, "ok", "n/a",
                    Some(get_category_summary(expenses)), None)

\* The caller builds a CategoryReport on the ledger's lists and generates it.
category_report_query ==
  /\ UNCHANGED <<expenses, categories, data_file, categories_file>>
  /\ last' = Report("CategoryReport", None, "ok", "n/a",
                    Some(generate_report(expenses, categories)), None)

(***************************************************************************)
(* Console flow: ExpenseManagerUI.add_recurring_expense_ui.                *)
(***************************************************************************)
\* float(text): None stands for ValueError.
ParseFloat(text) ==
  CASE text = "0" -> Some(0)
    [] text = "4000" -> Some(4000)
    [] text = "6000" -> Some(6000)
    [] OTHER -> None

\* str.strip()
Strip(text) ==
  CASE text = " Weekly " -> "Weekly"
    [] text = " 1" -> "1"
    [] OTHER -> text

\* str.isdigit() and int(text) on the inputs the model uses.
IsDigit(text) == text \in {"1", "2", "99"}
ParseInt(text) ==
  CASE text = "1" -> 1
    [] text = "2" -> 2
    [] OTHER -> 99

\* The category chosen from the input: a number picks from the list, a name
\* must be a category name as written, anything else becomes "Other".
chosen_category(cat_input, cats) ==
  IF IsDigit(Strip(cat_input))
  THEN IF valid_index(ParseInt(Strip(cat_input)) - 1, cats)
       THEN At(cats, ParseInt(Strip(cat_input)) - 1).name
       ELSE "Other"
  ELSE IF \E i \in 1..Len(cats) : cats[i].name = Strip(cat_input)
       THEN Strip(cat_input)
       ELSE "Other"

\* The frequency kept from the input: lowered, and monthly unless one of
\* the four known values.
chosen_frequency(frequency_input) ==
  IF Lower(Strip(frequency_input)) \in {"daily", "weekly", "monthly", "yearly"}
  THEN Lower(Strip(frequency_input))
  ELSE "monthly"

\* add_recurring_expense_ui: a ValueError from float() ends the flow with a
\* message; otherwise a RecurringExpense is built and handed to add_expense.
add_recurring_expense_ui(amount_input, cat_input, description, frequency_input, date_input, now, disk) ==
  IF ParseFloat(amount_input) = None
  THEN /\ UNCHANGED <<expenses, categories, data_file, categories_file>>
       /\ last' = Report("add_recurring_expense_ui", None, "InvalidAmount",
                         "n/a", None, None)
  ELSE add_expense(
         RecurringExpense(ParseFloat(amount_input)[1],
                          chosen_category(cat_input, categories),
                          description,
                          Some(IF Truthy(date_input) THEN date_input ELSE now),
                          chosen_frequency(frequency_input), now),
         disk)

(***************************************************************************)
(* Inputs and specifications.                                              *)
(***************************************************************************)
\* The expenses a caller can construct from the given argument values.
ConstructedExpenses(I, now) ==
  {Expense(a, c, d, t, now) :
     a \in I.amounts, c \in I.categories, d \in I.descriptions, t \in I.dates}
  \cup
  {RecurringExpense(a, c, d, t, f, now) :
     a \in I.amounts, c \in I.categories, d \in I.descriptions,
     t \in I.dates, f \in I.frequencies}

\* Indices tried on the expense list: out of range on both sides, the first
\* position and the last two.
IndexInputs(coll) == {-1, 0, Len(coll) - 2, Len(coll) - 1, Len(coll)}

\* Indices tried on the category list: out of range on both sides and the
\* two ends.
CategoryIndexInputs(coll) == {-1, 0, Len(coll) - 1, Len(coll)}

\* One step of the program: a ledger operation, a query or the console flow
\* of a running process, or a start of the program on the files as they
\* are, on inputs drawn from I.  The lists grow up to the bounds.
Next(I) ==
  \/ \E now \in Days, disk \in I.disk :
       \E e \in ConstructedExpenses(I, now) :
         /\ Running
         /\ Len(expenses) < MaxExpenses
         /\ add_expense(e, disk)
  \/ \E index \in IndexInputs(expenses), disk \in I.disk :
       /\ Running
       /\ delete_expense(index, disk)
  \/ \E index \in IndexInputs(expenses), disk \in I.disk :
       \E u \in I.updates :
         /\ Running
         /\ update_expense(index, u[1], u[2], u[3], u[4], disk)
  \/ \E name \in I.names, limit \in I.budgets, disk \in I.disk :
       /\ Running
       /\ category_exists(name, categories) \/ Len(categories) < MaxCategories
       /\ add_category(name, limit, disk)
  \/ \E index \in CategoryIndexInputs(categories), limit \in I.new_budgets,
        disk \in I.disk :
       /\ Running
       /\ update_category_budget(index, limit, disk)
  \/ Running /\ total_spending_query
  \/ Running /\ category_summary_query
  \/ Running /\ category_report_query
  \/ \E now \in Days, disk \in I.disk :
       \E a \in I.ui_amounts, c \in I.ui_categories, d \in I.descriptions,
          f \in I.ui_frequencies, t \in I.ui_dates :
         /\ Running
         /\ Len(expenses) < MaxExpenses
         /\ add_recurring_expense_ui(a, c, d, f, t, now, disk)
  \/ \E now \in Days, w \in I.starts : Restart(now, w[1], w[2])

\* The ledger driven through its operations on amounts and categories that
\* exercise the aggregates and the budget report; every write succeeds.
LedgerInputs ==
  [amounts |-> {0, 4000, 6000},
   categories |-> {"Food", "food"},
   descriptions |-> {"lunch"},
   dates |-> {Some("2024-05-10")},
   frequencies |-> {},
   updates |-> {<<None, None, None, None>>,
                <<Some(0), None, None, None>>,
                <<None, Some("food"), None, None>>,
                <<Some(0), Some("food"), None, None>>},
   names |-> {"FOOD", "Gym", "gym"},
   budgets |-> {0},
   new_budgets |-> {0, 4000},
   ui_amounts |-> {"abc"},
   ui_categories |-> {" 1", "Food"},
   ui_frequencies |-> {"monthly"},
   ui_dates |-> {"2024-05-10"},
   disk |-> {"ok"},
   starts |-> {<<"ok", "ok">>}]

Spec == Init /\ [][Next(LedgerInputs)]_vars

\* Partial updates (amount, category, description, date) in which every
\* field is given in some and left out in others, with 0 and the empty
\* string among the new values, on regular and recurring expenses; every
\* write succeeds.
UpdateInputs ==
  [amounts |-> {4000},
   categories |-> {"Food"},
   descriptions |-> {"lunch"},
   dates |-> {Some("2024-05-10")},
   frequencies |-> {"weekly"},
   updates |-> {<<None, None, None, None>>,
                <<Some(0), None, Some(""), None>>,
                <<None, Some(""), None, Some("")>>,
                <<Some(0), Some(""), Some(""), Some("")>>},
   names |-> {"FOOD"},
   budgets |-> {0},
   new_budgets |-> {5000},
   ui_amounts |-> {"abc"},
   ui_categories |-> {"Food"},
   ui_frequencies |-> {" Weekly "},
   ui_dates |-> {"2024-05-10"},
   disk |-> {"ok"},
   starts |-> {<<"ok", "ok">>}]

SpecUpdate == Init /\ [][Next(UpdateInputs)]_vars

\* Writes that can fail either way, on few values.  The categories file
\* exists from the first run on, so a start never writes it.
FaultyInputs ==
  [amounts |-> {4000},
   categories |-> {"Food"},
   descriptions |-> {"lunch"},
   dates |-> {Some("2024-05-10")},
   frequencies |-> {},
   updates |-> {<<Some(0), None, None, None>>},
   names |-> {"Gym"},
   budgets |-> {0},
   new_budgets |-> {4000},
   ui_amounts |-> {"abc"},
   ui_categories |-> {"Food"},
   ui_frequencies |-> {"monthly"},
   ui_dates |-> {"2024-05-10"},
   disk |-> DiskOutcomes,
   starts |-> DiskOutcomes \X {"ok"}]

SpecFaulty == Init /\ [][Next(FaultyInputs)]_vars

\* Every kind of record: optional and empty dates and descriptions, known
\* and unknown frequencies, updates to empty strings; every write succeeds.
RecordInputs ==
  [amounts |-> {99},
   categories |-> {"Bills"},
   descriptions |-> {"", "rent"},
   dates |-> {None, Some(""), Some("2024-05-10")},
   frequencies |-> {"yearly", "biweekly"},
   updates |-> {<<None, None, Some(""), None>>,
                <<None, None, None, Some("")>>},
   names |-> {"FOOD"},
   budgets |-> {0},
   new_budgets |-> {5000},
   ui_amounts |-> {"0", "abc"},
   ui_categories |-> {"99"},
   ui_frequencies |-> {" Weekly ", "biweekly"},
   ui_dates |-> {""},
   disk |-> {"ok"},
   starts |-> {<<"ok", "ok">>}]

SpecRecords == Init /\ [][Next(RecordInputs)]_vars

\* expenses.json as the program may find it when it starts: absent, an empty
\* list, text that is not JSON, a list of one saved expense, and a list
\* whose second item lacks the keys from_dict reads.
ExpenseStores ==
  {MissingFile,
   JsonFile(<<>>),
   TruncatedFile,
   JsonFile(<< [keys |-> {"amount", "category", "description", "date", "type"},
                amount |-> 250, category |-> "Food", description |-> "tea",
                date |-> "2024-05-09", type |-> "regular",
                frequency |-> NoValue] >>),
   JsonFile(<< [keys |-> {"amount", "category", "description", "date", "type"},
                amount |-> 250, category |-> "Food", description |-> "tea",
                date |-> "2024-05-09", type |-> "regular",
                frequency |-> NoValue],
               [keys |-> {"amount"},
                amount |-> 250, category |-> NoValue, description |-> NoValue,
                date |-> NoValue, type |-> NoValue, frequency |-> NoValue] >>)}

\* categories.json as the program may find it when it starts: absent, an
\* empty list, text that is not JSON, a list of one saved category, and a
\* list whose second item lacks the budget_limit key.
CategoryStores ==
  {MissingFile,
   JsonFile(<<>>),
   TruncatedFile,
   JsonFile(<< [keys |-> {"name", "budget_limit"},
                name |-> "Food", budget_limit |-> 700] >>),
   JsonFile(<< [keys |-> {"name", "budget_limit"},
                name |-> "Food", budget_limit |-> 700],
               [keys |-> {"name"}, name |-> "Rent", budget_limit |-> 0] >>)}

\* Before main() runs: no ExpenseManager yet, the two files as found.
InitLoad ==
  /\ expenses = <<>>
  /\ categories = <<>>
  /\ data_file \in ExpenseStores
  /\ categories_file \in CategoryStores
  /\ last = NotStarted

\* Starts of the program on every pair of stores, with writes that succeed
\* or fail, followed by a few operations of the running ledger.
LoadInputs ==
  [amounts |-> {4000},
   categories |-> {"Food"},
   descriptions |-> {"lunch"},
   dates |-> {Some("2024-05-10")},
   frequencies |-> {},
   updates |-> {<<None, None, None, None>>},
   names |-> {"Gym"},
   budgets |-> {0},
   new_budgets |-> {4000},
   ui_amounts |-> {"abc"},
   ui_categories |-> {"Food"},
   ui_frequencies |-> {},
   ui_dates |-> {"2024-05-10"},
   disk |-> DiskOutcomes,
   starts |-> DiskOutcomes \X DiskOutcomes]

SpecLoad == InitLoad /\ [][Next(LoadInputs)]_vars

(***************************************************************************)
(* Properties.  The expected results below are stated on positions and on  *)
(* sets of positions, apart from the operators that model the code.        *)
(***************************************************************************)
RECURSIVE AmountOver(_, _)
\* The sum of the amounts of the expenses at the positions in S.
AmountOver(S, exps) ==
  IF S = {} THEN 0
  ELSE LET k == CHOOSE x \in S : TRUE
       IN exps[k].amount + AmountOver(S \ {k}, exps)

\* The positions of the expenses whose category is exactly name.
PositionsOf(name, exps) == {k \in 1..Len(exps) : exps[k].category = name}

\* The serialized form of an expense list, field for field.
SerializedExpenses(exps) ==
  [k \in 1..Len(exps) |->
     [keys |-> IF exps[k].cls = "RecurringExpense"
               THEN {"amount", "category", "description", "date", "type",
                     "frequency"}
               ELSE {"amount", "category", "description", "date", "type"},
      amount |-> exps[k].amount,
      category |-> exps[k].category,
      description |-> exps[k].description,
      date |-> exps[k].date,
      type |-> IF exps[k].cls = "RecurringExpense" THEN "recurring"
               ELSE "regular",
      frequency |-> IF exps[k].cls = "RecurringExpense" THEN exps[k].frequency
                    ELSE NoValue]]

\* C1: delete_expense(i) with 0 <= i < len(expenses) succeeds, leaves the
\* old sequence with element i dropped (one element fewer, every other
\* expense unchanged and in the same order) and leaves the categories alone.
C1_DeleteDropsElement ==
  [][(last'.op = "delete_expense"
        /\ 0 <= last'.args[1] /\ last'.args[1] < Len(expenses))
     => /\ last'.status = "ok"
        /\ Len(expenses') = Len(expenses) - 1
        /\ \A k \in 1..Len(expenses') :
             expenses'[k] = IF k <= last'.args[1] THEN expenses[k]
                            ELSE expenses[k + 1]
        /\ categories' = categories]_vars

\* C1 witness: the first of two different expenses was deleted; the other
\* one is what remains.
C1_Witness ==
  /\ last.op = "delete_expense"
  /\ last.status = "ok"
  /\ last.args[1] = 0
  /\ Len(expenses) = 1
  /\ last.shown /= Some(expenses[1])

\* C2: delete_expense, update_expense and update_category_budget called with
\* an index outside 0 <= index < len leave both lists and both files as they
\* were and end with the invalid-index message.
C2_OutOfRangeIndexChangesNothing ==
  [][(\/ /\ last'.op \in {"delete_expense", "update_expense"}
         /\ ~(0 <= last'.args[1] /\ last'.args[1] < Len(expenses))
      \/ /\ last'.op = "update_category_budget"
         /\ ~(0 <= last'.args[1] /\ last'.args[1] < Len(categories)))
     => /\ last'.status = "IndexOutOfRange"
        /\ expenses' = expenses
        /\ categories' = categories
        /\ data_file' = data_file
        /\ categories_file' = categories_file]_vars

\* C2 witness: delete_expense(-1) on a non-empty list was refused, while the
\* expense file differs from the list in memory.
C2_Witness ==
  /\ last.op = "delete_expense"
  /\ last.status = "IndexOutOfRange"
  /\ last.args[1] = -1
  /\ Len(expenses) = 2
  /\ data_file /= JsonFile(SerializedExpenses(expenses))

\* C3: update_expense(i, ...) with a valid i overwrites exactly the fields
\* among amount, category, description and date that were given (0 and the
\* empty string count as given) and leaves the other fields of expense i,
\* its class and frequency, every other expense, the order and the
\* categories unchanged.
C3_UpdateOverwritesOnlyGivenFields ==
  [][(last'.op = "update_expense"
        /\ 0 <= last'.args[1] /\ last'.args[1] < Len(expenses))
     => LET k == last'.args[1] + 1
            old == expenses[k]
            new == expenses'[k]
        IN /\ last'.status = "ok"
           /\ Len(last'.args) = 5
           /\ Len(expenses') = Len(expenses)
           /\ \A j \in 1..Len(expenses) : j /= k => expenses'[j] = expenses[j]
           /\ new.amount =
                (IF last'.args[2] = None THEN old.amount ELSE last'.args[2][1])
           /\ new.category =
                (IF last'.args[3] = None THEN old.category ELSE last'.args[3][1])
           /\ new.description =
                (IF last'.args[4] = None THEN old.description
                 ELSE last'.args[4][1])
           /\ new.date =
                (IF last'.args[5] = None THEN old.date ELSE last'.args[5][1])
           /\ new.cls = old.cls
           /\ new.frequency = old.frequency
           /\ categories' = categories]_vars

\* C3 witness: the first of two expenses, a recurring one, was updated to an
\* empty description and amount 0 and kept its category, date and frequency;
\* the second kept everything.
C3_Witness ==
  /\ last.op = "update_expense"
  /\ last.status = "ok"
  /\ last.args = <<0, Some(0), None, Some(""), None>>
  /\ Len(expenses) = 2
  /\ expenses[1] = [cls |-> "RecurringExpense", amount |-> 0,
                    category |-> "Food", description |-> "",
                    date |-> "2024-05-10", frequency |-> "weekly"]
  /\ expenses[2] = [cls |-> "Expense", amount |-> 4000,
                    category |-> "Food", description |-> "lunch",
                    date |-> "2024-05-10", frequency |-> NoAttr]

\* Names that differ at most by the case of their letters.
CaseGroups == {{"Food", "FOOD", "food"}, {"Gym", "gym"}}
EqualIgnoringCase(a, b) == a = b \/ \E g \in CaseGroups : a \in g /\ b \in g

CaseDistinct(cats) ==
  \A i \in 1..Len(cats) : \A j \in (i + 1)..Len(cats) :
    ~EqualIgnoringCase(cats[i].name, cats[j].name)

\* C4: add_category(name, limit) reports DuplicateCategory and changes
\* neither the category list nor its file when an existing name equals name
\* up to case, and otherwise appends exactly one category with that name at
\* the end; so add_category and update_category_budget keep a list of
\* case-insensitively distinct names distinct.
C4_AddCategoryRejectsCaseDuplicates ==
  [][/\ last'.op = "add_category"
        => IF \E i \in 1..Len(categories) :
                EqualIgnoringCase(categories[i].name, last'.args[1])
           THEN /\ last'.status = "DuplicateCategory"
                /\ categories' = categories
                /\ categories_file' = categories_file
           ELSE /\ last'.status = "ok"
                /\ Len(categories') = Len(categories) + 1
                /\ SubSeq(categories', 1, Len(categories)) = categories
                /\ categories'[Len(categories')].name = last'.args[1]
     /\ (last'.op \in {"add_category", "update_category_budget"}
           /\ categories' /= categories
           /\ CaseDistinct(categories))
        => CaseDistinct(categories')]_vars

\* C4 witness: "Gym" was added as the ninth category, then "gym" was
\* refused.
C4_Witness ==
  /\ last.op = "add_category"
  /\ last.status = "DuplicateCategory"
  /\ last.args = <<"gym">>
  /\ Len(categories) = 9
  /\ categories[9].name = "Gym"

\* C5: after a mutating operation that succeeded and whose save succeeded,
\* a new ledger built from the files holds the same expenses, or the same
\* categories, as the one in memory.
C5_SavedStoreReloadsEqual ==
  /\ (last.op \in {"add_expense", "delete_expense", "update_expense"}
        /\ last.status = "ok" /\ last.saved = "saved")
     => \A now \in Days : loaded_expenses(data_file, now) = expenses
  /\ (last.op \in {"add_category", "update_category_budget"}
        /\ last.status = "ok" /\ last.saved = "saved")
     => loaded_categories(categories_file) = categories

\* The position at which a category first appears among the expenses.
FirstPosition(name, exps) ==
  CHOOSE k \in PositionsOf(name, exps) :
    \A j \in PositionsOf(name, exps) : k <= j

\* C6: in every reachable state get_total_spending() is the sum of the
\* amounts of the expenses, and get_category_summary() has one key per
\* category occurring among the expenses, in order of first appearance,
\* each with the sum of the amounts of the expenses of exactly that
\* category; the queries return these values.
C6_TotalAndSummary ==
  LET summary == get_category_summary(expenses)
  IN /\ get_total_spending(expenses) =
          AmountOver(1..Len(expenses), expenses)
     /\ {summary[i][1] : i \in 1..Len(summary)} =
          {expenses[k].category : k \in 1..Len(expenses)}
     /\ \A i, j \in 1..Len(summary) :
          i < j => FirstPosition(summary[i][1], expenses)
                     < FirstPosition(summary[j][1], expenses)
     /\ \A i \in 1..Len(summary) :
          summary[i][2] =
            AmountOver(PositionsOf(summary[i][1], expenses), expenses)
     /\ last.op = "get_total_spending"
          => last.ret = Some(AmountOver(1..Len(expenses), expenses))
     /\ last.op = "get_category_summary" => last.ret = Some(summary)

\* C6 witness: the summary of two Food expenses of 4000 and 6000 was asked
\* for and is the single entry Food: 10000.
C6_Witness ==
  /\ last.op = "get_category_summary"
  /\ Len(expenses) = 2
  /\ last.ret = Some(<< <<"Food", 10000>> >>)

\* C7: to_dict followed by the loader's from_dict gives back every expense
\* and every category of the ledger, field for field, with its class and
\* frequency.
C7_RoundTrip ==
  /\ \A k \in 1..Len(expenses) : \A now \in Days :
       expense_from_item(to_dict(expenses[k]), now) = expenses[k]
  /\ \A k \in 1..Len(categories) :
       Category_from_dict(Category_to_dict(categories[k])) = categories[k]

\* C8: no RecurringExpense of the ledger has a frequency outside daily,
\* weekly, monthly, yearly: the constructor turns any other value into
\* monthly.
C8_FrequencyInClosedSet ==
  \A k \in 1..Len(expenses) :
    expenses[k].cls = "RecurringExpense"
      => expenses[k].frequency \in {"daily", "weekly", "monthly", "yearly"}

\* C9: the category report has one block per category, in list order, with
\* spent = the sum of the amounts of the expenses of exactly that category;
\* with a limit > 0 it marks limit - spent as remaining when spent <= limit
\* and spent - limit as over budget when spent > limit; with limit 0 it has
\* neither line; generating it changes neither list.
C9_CategoryReport ==
  [][last'.op = "CategoryReport"
     => /\ expenses' = expenses
        /\ categories' = categories
        /\ Len(last'.ret[1]) = Len(categories)
        /\ \A i \in 1..Len(categories) :
             LET block == last'.ret[1][i]
                 limit == categories[i].budget_limit
                 spent == AmountOver(PositionsOf(categories[i].name, expenses),
                                     expenses)
             IN /\ block.name = categories[i].name
                /\ block.total = spent
                /\ block.budget_limit = limit
                /\ (limit > 0 /\ spent <= limit)
                     => block.line = [mark |-> "Remaining",
                                      value |-> limit - spent]
                /\ (limit > 0 /\ spent > limit)
                     => block.line = [mark |-> "Over Budget",
                                      value |-> spent - limit]
                /\ limit = 0 => block.line.mark = "none"]_vars

\* C9 witness: the report shows Food, limit 5000, spent 6000, as 1000 over
\* budget.
C9_Witness ==
  /\ last.op = "CategoryReport"
  /\ last.ret[1][1] = [name |-> "Food", total |-> 6000, budget_limit |-> 5000,
                       line |-> [mark |-> "Over Budget", value |-> 1000]]

\* C10 as claimed: on success delete_expense writes the remaining expenses
\* to the file (when the write succeeds) and returns the removed expense.
C10_DeleteReturnsRemoved ==
  [][(last'.op = "delete_expense"
        /\ 0 <= last'.args[1] /\ last'.args[1] < Len(expenses))
     => /\ last'.saved = "saved"
             => data_file' = JsonFile(SerializedExpenses(expenses'))
        /\ last'.ret = Some(expenses[last'.args[1] + 1])]_vars

\* C10, amended: on success delete_expense writes the remaining expenses to
\* the file (a failed write is reported and leaves the file behind), shows
\* the removed expense in its message and returns nothing.
C10_DeleteSavesAndShowsRemoved ==
  [][(last'.op = "delete_expense"
        /\ 0 <= last'.args[1] /\ last'.args[1] < Len(expenses))
     => /\ last'.status = "ok"
        /\ last'.saved \in {"saved", "PersistFailure"}
        /\ last'.saved = "saved"
             => data_file' = JsonFile(SerializedExpenses(expenses'))
        /\ last'.shown = Some(expenses[last'.args[1] + 1])
        /\ last'.ret = None]_vars

\* C10 witness: one of two expenses was deleted, nothing was returned, the
\* removed one was shown and the file holds the one that remains.
C10_Witness ==
  /\ last.op = "delete_expense"
  /\ last.status = "ok"
  /\ last.saved = "saved"
  /\ last.ret = None
  /\ last.shown /= None
  /\ Len(expenses) = 1
  /\ data_file = JsonFile(SerializedExpenses(expenses))


(***************************************************************************)
(* Construction: defaults and corrupt stores.                              *)
(***************************************************************************)
\* The eight default categories with their preset budget limits, in order.
EightDefaults ==
  << [name |-> "Food", budget_limit |-> 5000],
     [name |-> "Travel", budget_limit |-> 3000],
     [name |-> "Entertainment", budget_limit |-> 2000],
     [name |-> "Shopping", budget_limit |-> 4000],
     [name |-> "Bills", budget_limit |-> 6000],
     [name |-> "Healthcare", budget_limit |-> 1500],
     [name |-> "Education", budget_limit |-> 3000],
     [name |-> "Other", budget_limit |-> 1000] >>

\* The store holds a JSON list with no items.
EmptyCollection(f) == f.exists /\ f.json /\ f.data = <<>>

\* The step is a construction that completed.
Constructed == last'.op = "__init__" /\ last'.status = "ok"

\* C11 as stated: a construction that finds the category store missing, or
\* present with an empty collection, leaves the eight default categories in
\* order with their preset limits; a construction that finds the expense
\* store missing creates it as the empty collection and leaves an empty
\* expense sequence.
C11_DefaultsWheneverNoCategories ==
  [][Constructed =>
       /\ (~categories_file.exists \/ EmptyCollection(categories_file))
            => categories' = EightDefaults
       /\ ~data_file.exists
            => expenses' = <<>> /\ data_file' = JsonFile(<<>>)]_vars

\* C11 amended: a construction that finds the category store missing creates
\* it with the eight defaults and leaves them as the category sequence, in
\* order with their preset limits; one that finds the category store present
\* with an empty collection leaves it as it is and leaves an empty category
\* sequence; one that finds the expense store missing creates it as the
\* empty collection and leaves an empty expense sequence.
C11_DefaultsWhenStoreMissing ==
  [][Constructed =>
       /\ ~categories_file.exists
            => /\ categories' = EightDefaults
               /\ categories_file' =
                    JsonFile([i \in 1..8 |-> Category_to_dict(EightDefaults[i])])
       /\ EmptyCollection(categories_file)
            => categories' = <<>> /\ categories_file' = categories_file
       /\ ~data_file.exists
            => expenses' = <<>> /\ data_file' = JsonFile(<<>>)]_vars

\* A completed construction on two missing stores: the eight defaults, no
\* expenses, both stores created.
C11_Witness ==
  /\ last.op = "__init__"
  /\ last.status = "ok"
  /\ categories = EightDefaults
  /\ categories_file = JsonFile([i \in 1..8 |-> Category_to_dict(EightDefaults[i])])
  /\ expenses = <<>>
  /\ data_file = JsonFile(<<>>)

\* The store exists and its content does not load: it is not JSON, or an
\* item lacks a key from_dict reads.
CorruptExpenseStore(f) == f.exists /\ ~expenses_loadable(f)
CorruptCategoryStore(f) == f.exists /\ ~categories_loadable(f)

\* What C12 says of a start of the program that finds both stores present.
CorruptStoreHandled ==
  /\ CorruptExpenseStore(data_file) \/ CorruptCategoryStore(categories_file)
       => last'.status = "ok"
  /\ CorruptExpenseStore(data_file)
       => /\ expenses' = <<>>
          /\ data_file' = JsonFile(<<>>)
          /\ categories' = loaded_categories(categories_file)
  /\ CorruptCategoryStore(categories_file)
       => /\ categories' = <<>>
          /\ categories_file' = categories_file
          /\ \E now \in Days : expenses' = loaded_expenses(data_file, now)

\* C12: a start of the program on two existing stores of which one or both
\* are corrupt never aborts construction; a corrupt expense store leaves an
\* empty expense sequence and is rewritten to the empty collection; a
\* corrupt category store leaves an empty category sequence and is left as
\* it was; the other store is loaded as if nothing had happened.
C12_CorruptStoreNeverAborts ==
  [][last'.op = "__init__" /\ data_file.exists /\ categories_file.exists
       => CorruptStoreHandled]_vars

\* C12 on the starts where the reset of the expense store could be written
\* (the construction completed): the same handling, on every such step.
C12_HandledWhenConstructed ==
  [][Constructed /\ data_file.exists /\ categories_file.exists
       => CorruptStoreHandled]_vars

(***************************************************************************)
(* Failed saves.                                                           *)
(***************************************************************************)
ExpenseMutations == {"add_expense", "delete_expense", "update_expense"}
CategoryMutations == {"add_category", "update_category_budget"}

\* The serialized form of a category list, field for field.
SerializedCategories(cats) ==
  [k \in 1..Len(cats) |->
     [keys |-> {"name", "budget_limit"},
      name |-> cats[k].name, budget_limit |-> cats[k].budget_limit]]

\* The in-memory change each mutating operation makes, read from the
\* arguments recorded for the step.
MutationApplied ==
  CASE last'.op = "add_expense" ->
         /\ Len(expenses') = Len(expenses) + 1
         /\ SubSeq(expenses', 1, Len(expenses)) = expenses
    [] last'.op = "delete_expense" ->
         /\ Len(expenses') = Len(expenses) - 1
         /\ \A k \in 1..Len(expenses') :
              expenses'[k] = IF k <= last'.args[1] THEN expenses[k]
                             ELSE expenses[k + 1]
    [] last'.op = "update_expense" ->
         /\ Len(expenses') = Len(expenses)
         /\ \A k \in 1..Len(expenses) :
              IF k = last'.args[1] + 1
              THEN /\ last'.args[2] /= None
                        => expenses'[k].amount = last'.args[2][1]
                   /\ last'.args[3] /= None
                        => expenses'[k].category = last'.args[3][1]
                   /\ last'.args[4] /= None
                        => expenses'[k].description = last'.args[4][1]
                   /\ last'.args[5] /= None
                        => expenses'[k].date = last'.args[5][1]
              ELSE expenses'[k] = expenses[k]
    [] last'.op = "add_category" ->
         /\ Len(categories') = Len(categories) + 1
         /\ SubSeq(categories', 1, Len(categories)) = categories
         /\ categories'[Len(categories')].name = last'.args[1]
    [] last'.op = "update_category_budget" ->
         /\ Len(categories') = Len(categories)
         /\ \A k \in 1..Len(categories) :
              IF k = last'.args[1] + 1
              THEN /\ categories'[k].name = categories[k].name
                   /\ categories'[k].budget_limit = last'.args[2]
              ELSE categories'[k] = categories[k]
    [] OTHER -> FALSE

\* C13: on every step whose save fails, the failure is reported and the
\* operation still ends with its success message; the in-memory mutation is
\* applied; the other collection and its store are unchanged; the process
\* keeps running; the store of the mutated collection is left as it was or
\* truncated, so when memory changed and the store held the old collection
\* the store does not hold the new one.  And no step other than a save of
\* that collection (or a start of the program) changes a store: nothing
\* retries the write later.
C13_FailedSaveKeepsMutation ==
  [][/\ last'.saved = "PersistFailure" =>
          /\ last'.op \in ExpenseMutations \cup CategoryMutations
          /\ last'.status = "ok"
          /\ Running'
          /\ MutationApplied
          /\ last'.op \in ExpenseMutations =>
               /\ UNCHANGED <<categories, categories_file>>
               /\ data_file' \in {data_file, TruncatedFile}
               /\ (expenses' /= expenses
                     /\ data_file = JsonFile(SerializedExpenses(expenses)))
                    => data_file' /= JsonFile(SerializedExpenses(expenses'))
          /\ last'.op \in CategoryMutations =>
               /\ UNCHANGED <<expenses, data_file>>
               /\ categories_file' \in {categories_file, TruncatedFile}
               /\ (categories' /= categories
                     /\ categories_file =
                          JsonFile(SerializedCategories(categories)))
                    => categories_file' /=
                         JsonFile(SerializedCategories(categories'))
     /\ data_file' /= data_file =>
          \/ last'.op \in ExpenseMutations /\ last'.saved /= "n/a"
          \/ last'.op = "__init__"
     /\ categories_file' /= categories_file =>
          \/ last'.op \in CategoryMutations /\ last'.saved /= "n/a"
          \/ last'.op = "__init__"]_vars

\* Two expenses were added and both saves were refused: the second call was
\* accepted after the first failure, both expenses are in memory and the
\* store still holds the empty collection it held before.
C13_Witness ==
  /\ last.op = "add_expense"
  /\ last.saved = "PersistFailure"
  /\ Len(expenses) = 2
  /\ data_file = JsonFile(<<>>)

(***************************************************************************)
(* Categories of the expenses.                                             *)
(***************************************************************************)
\* The names in the ledger's category sequence.
CategoryNames == {categories[i].name : i \in 1..Len(categories)}

\* C14: in every reachable state the category of every expense is the name
\* of a category in the ledger's category sequence, or the fallback "Other".
C14_ExpenseCategoriesKnown ==
  \A k \in 1..Len(expenses) :
    expenses[k].category \in CategoryNames \cup {"Other"}
====
